---- MODULE Spec2Model ----
(***************************************************************************)
(* Fraud-investigation orchestration engine.                               *)
(*                                                                         *)
(* The module models three programs of the repository:                     *)
(*   - core/engine.py: the five-phase pipeline run_dynamic_investigation   *)
(*     (fetch, plan, staged SQL execution, classification with             *)
(*     post-processing, ticket update);                                    *)
(*   - tools/batch_investigation.py: process_batch, which drives that      *)
(*     pipeline over a list of ticket ids through the SQLite cache;        *)
(*   - engine.py (v2.2): investigate_ticket with its own cache.            *)
(*                                                                         *)
(* External collaborators (ticket API, planner/classifier service,         *)
(* evidence store) are the environment: each call draws its answer from a  *)
(* finite set of possible answers.                                         *)
(*                                                                         *)
(* Python None is the string NULL.  A confidence is a number of            *)
(* hundredths (0.70 is 70) wrapped in a record that also says whether the  *)
(* key was present and held a number.                                      *)
(***************************************************************************)
EXTENDS Integers, Sequences, FiniteSets, TLC

NULL == "NULL"

(***************************************************************************)
(* config/settings.py                                                      *)
(***************************************************************************)
confidence_high == 70

confidence_medium == 55

FRAUD_ALLEGATION_OPTIONS ==
    { "Cash Payments", "Hacking & Tampering", "Identity Theft", "Cash Loan Fraud",
      "Hardware theft (Lost & Found)", "Hardware theft DSR", "Resale", "Stolen stock" }

ALLEGATION_TO_SUBREASON ==
    [ a \in FRAUD_ALLEGATION_OPTIONS |->
        CASE a = "Cash Loan Fraud"               -> "Cash Payments"
          [] a = "Cash Payments"                 -> "Cash Payments"
          [] a = "Identity Theft"                -> "Identity theft"
          [] a = "Hacking & Tampering"           -> "Hacking and tampering"
          [] a = "Hardware theft (Lost & Found)" -> "Hardware theft"
          [] a = "Hardware theft DSR"            -> "Hardware theft"
          [] a = "Resale"                        -> "Resale"
          [] a = "Stolen stock"                  -> "Hardware theft" ]

REASON_STANDARDIZATION(reason) ==
    CASE reason = "Cash loan fraud" -> "Cash Loan Fraud"
      [] reason = "Customer fraud"  -> "Customer Fraud"
      [] OTHER                      -> reason

FRAUD_TYPES ==
    { "device_tampering", "account_takeover", "cash_loan_fraud", "payment_fraud",
      "network_fraud", "external_scam", "identity_theft", "dsr_misconduct", "unknown" }

(***************************************************************************)
(* The classifier's answer (the JSON object asked for by                   *)
(* build_enhanced_investigation_prompt), field by field.                   *)
(***************************************************************************)
FraudStatuses == { "Likely fraud", "Not fraud", "Confirmed fraud", NULL }

ValidStatuses == { "Likely fraud", "Not fraud" }

Num(v) == [kind |-> "number", val |-> v]

NoneConfidence == [kind |-> "null", val |-> 0]

MissingConfidence == [kind |-> "missing", val |-> 0]

\* hundredths: 0.30, 0.55, 0.60, 0.70, 0.85 and the out-of-range 1.50, -0.10
ConfidenceNumbers == { 30, 55, 60, 70, 85, 150, -10 }

Confidences == { Num(v) : v \in ConfidenceNumbers } \cup { NoneConfidence, MissingConfidence }

Allegations == { NULL, "Identity Theft", "Cash Loan Fraud", "Pyramid scheme" }

SuspectTypes == { NULL, "DSR", "Customer" }

CaseOutcomes == { "Awaiting field Investigation", "Re-investigate", "No action required" }

\* A note is the set of identifying fields its text carries; the generic
\* note carries none.
Blocklist == { "account_number", "name", "phone", "score" }

PublicNotes == { {}, {"account_number"}, {"name", "phone"} }

\* risk_factors.dfrs_fraud_score as data_sources_used.dfrs_available reads it
DfrsReports == { [dfrs_available |-> FALSE, dfrs_fraud_score |-> NULL],
                 [dfrs_available |-> TRUE,  dfrs_fraud_score |-> NULL],
                 [dfrs_available |-> TRUE,  dfrs_fraud_score |-> "0.82"] }

ClaudeResults(statuses, confidences, allegations, suspects, outcomes, notes, takeovers, dfrs) ==
    { [ fraud_status |-> s, confidence |-> c, primary_allegation |-> a,
        suspect_type |-> st, case_outcome |-> o, public_note |-> n,
        behavioral_account_takeover |-> t,
        dfrs_available |-> d.dfrs_available, dfrs_fraud_score |-> d.dfrs_fraud_score ] :
        s \in statuses, c \in confidences, a \in allegations, st \in suspects,
        o \in outcomes, n \in notes, t \in takeovers, d \in dfrs }

\* What client.messages.create hands back: an API failure, text that is not
\* JSON, JSON that is not an object (.get raises on it), or a JSON object.
Responses(results) ==
    { [kind |-> "api_error"], [kind |-> "invalid_json"], [kind |-> "not_object"] }
        \cup { [kind |-> "json", body |-> r] : r \in results }

(***************************************************************************)
(* core/engine.py: helpers and post-processing                             *)
(***************************************************************************)
\* a derivation that leaves an unlisted allegation without a sub-reason
determine_reason_subreason_strict(primary_allegation, suspect_type) ==
    <<IF suspect_type \in { "DSR", "Other Internal staff", "Internal Sales staff" }
      THEN "DSR fraud"
      ELSE IF suspect_type = "Customer" THEN "Customer Fraud" ELSE "Suspected Fraud",
      IF primary_allegation \in FRAUD_ALLEGATION_OPTIONS
      THEN ALLEGATION_TO_SUBREASON[primary_allegation] ELSE NULL>>

determine_reason_subreason(primary_allegation, suspect_type) ==
    LET reason ==
            CASE suspect_type = "DSR"                -> "DSR fraud"
              [] suspect_type = "External to M-kopa" -> "External/Noncustomer fraud"
              [] suspect_type = "Customer"           -> "Customer Fraud"
              [] suspect_type \in {"Other Internal staff", "Internal Sales staff"}
                                                     -> "DSR fraud"
              [] OTHER                               -> "Suspected Fraud"
        subreason ==
            IF primary_allegation \in DOMAIN ALLEGATION_TO_SUBREASON
            THEN ALLEGATION_TO_SUBREASON[primary_allegation]
            ELSE "Cash Payments"
    IN  <<REASON_STANDARDIZATION(reason), subreason>>

\* "{x:.2f}" raises TypeError on None
FormatsAsFloat(c) == c.kind = "number"

\* claude_result.get('confidence', 0.0): the default only for a missing key
GetConfidenceOrZero(c) == IF c.kind = "missing" THEN Num(0) ELSE c

Raised(err) == [raised |-> TRUE, error |-> err]

Returned(v) == [raised |-> FALSE, value |-> v]

process_investigation_output(claude_result, account_number, ticket_id, fraud_type) ==
    LET fraud_status       == claude_result.fraud_status
        confidence         == GetConfidenceOrZero(claude_result.confidence)
        primary_allegation == claude_result.primary_allegation
        suspect_type       == claude_result.suspect_type
        case_outcome       == claude_result.case_outcome
        public_note        == claude_result.public_note
        rs == determine_reason_subreason(primary_allegation, suspect_type)
    IN  IF claude_result.dfrs_available /\ claude_result.dfrs_fraud_score = NULL
        THEN Raised("TypeError")        \* f"{None:.2f}" in sources_text
        ELSE IF ~FormatsAsFloat(confidence)
        THEN Raised("TypeError")        \* f"{confidence:.2f}" in case_details_update
        ELSE Returned(
            [ fraud_status |-> fraud_status,
              confidence   |-> confidence.val,
              custom_fields |->
                [ fraud_status |-> IF fraud_status = "Likely fraud" THEN fraud_status ELSE NULL,
                  case_outcome |-> case_outcome,
                  primary_allegation |-> primary_allegation,
                  reason_for_interaction |-> rs[1],
                  subreason_for_interaction |-> rs[2],
                  loan_account_number |-> account_number,
                  suspect_type |-> suspect_type ],
              public_comment |-> public_note,
              risk_factors |->
                [ behavioral_account_takeover |-> claude_result.behavioral_account_takeover,
                  dfrs_fraud_score |-> claude_result.dfrs_fraud_score ],
              metadata |-> [ ticket_id |-> ticket_id, fraud_type_detected |-> fraud_type ] ])

\* The exception a response that is no JSON object ends in
ResponseError(response) ==
    CASE response.kind = "invalid_json" -> "ValueError"
      [] response.kind = "not_object"   -> "AttributeError"
      [] OTHER                          -> "APIError"

\* The classification half of phase 4: call, strip fences, parse, print the
\* headline, post-process.  Every exception leaves the function.
phase4_classify(response, account_number, ticket_id, fraud_type) ==
    IF response.kind # "json" THEN Raised(ResponseError(response))
    ELSE IF ~FormatsAsFloat(response.body.confidence)
    THEN Raised("TypeError")            \* print(f"... {claude_result.get('confidence'):.2f}")
    ELSE process_investigation_output(response.body, account_number, ticket_id, fraud_type)

(***************************************************************************)
(* core/engine.py: standardize_phone_number.  A string is the sequence of  *)
(* its characters; None is PhoneNone.                                      *)
(***************************************************************************)
DigitCharacters == { "0", "1", "2", "3", "4", "5", "6", "7", "8", "9" }

PhoneNone == [none |-> TRUE, text |-> <<>>]

Phone(text) == [none |-> FALSE, text |-> text]

\* re.sub(r'\D', '', str(phone))
StripNonDigits(text) == SelectSeq(text, LAMBDA c : c \in DigitCharacters)

\* the function without the prefix step
standardize_phone_number_unprefixed(phone_number) ==
    IF phone_number.none \/ phone_number.text = <<>> THEN PhoneNone
    ELSE LET digits == StripNonDigits(phone_number.text)
         IN  IF Len(digits) \in {10, 9} THEN Phone(digits) ELSE PhoneNone

\* the function without the test of the length
standardize_phone_number_unchecked(phone_number) ==
    IF phone_number.none \/ phone_number.text = <<>> THEN PhoneNone
    ELSE LET digits == StripNonDigits(phone_number.text)
         IN  IF Len(digits) = 9 /\ digits[1] # "0"
             THEN Phone(<<"0">> \o digits) ELSE Phone(digits)

standardize_phone_number(phone_number) ==
    IF phone_number.none \/ phone_number.text = <<>> THEN PhoneNone
    ELSE LET digits  == StripNonDigits(phone_number.text)
             prefixed == IF Len(digits) = 9 /\ digits[1] # "0"
                         THEN <<"0">> \o digits ELSE digits
         IN  IF Len(prefixed) \in {10, 9} THEN Phone(prefixed) ELSE PhoneNone

PhoneOff == [pc |-> "off", arg |-> PhoneNone, ret |-> PhoneNone]

(***************************************************************************)
(* Evidence store rows.  A Python {} is the record with found = FALSE.     *)
(***************************************************************************)
EmptyProfile == [found |-> FALSE, AccountNumber |-> NULL, SupportsDFRS |-> FALSE]

AccountRow(dfrs) == [found |-> TRUE, AccountNumber |-> "ACC1", SupportsDFRS |-> dfrs]

EmptySignals == [found |-> FALSE, FraudScore |-> NULL]

SignalsRow == [found |-> TRUE, FraudScore |-> "0.82"]

EmptyBehavioral == [found |-> FALSE, ResetPinFromNewDevice |-> 0]

BehavioralRow(reset) == [found |-> TRUE, ResetPinFromNewDevice |-> reset]

\* One cursor.execute / fetch: it raises, or returns the rows it found.
QueryRaises == [kind |-> "exception"]

QueryReturns(rows) == [kind |-> "rows", rows |-> rows]

\* JSON values of a plan's execute_stage_* flags; Python tests them for truth.
Truthy(flag) == flag \in {"true", "yes"}

QueryPlans(fraud_types, flags3, flags4, flags5) ==
    { [ fraud_type |-> ft, execute_stage_3_dfrs |-> f3,
        execute_stage_4_history |-> f4, execute_stage_5_behavioral |-> f5 ] :
        ft \in fraud_types, f3 \in flags3, f4 \in flags4, f5 \in flags5 }

STAGE_1_2 == "Stage 1-2: Basic Account"

STAGE_3 == "Stage 3: DFRS"

STAGE_4 == "Stage 4: Historical"

STAGE_5 == "Stage 5: Behavioral"

(***************************************************************************)
(* State                                                                   *)
(***************************************************************************)
VARIABLES
    phone,              \* one call of standardize_phone_number: argument and result
    po_args,            \* arguments of one call of the classification half of phase 4
    po_ret,             \* what that call returned or raised
    ticket_ids,         \* process_batch: the list of ticket ids
    configuration,      \* process_batch: use_analytics, force_rerun, stop_on_error
    idx,                \* process_batch: 1-based position in ticket_ids
    tickets,            \* process_batch: results['tickets'] counters
    investigations,     \* process_batch: results['investigations']
    batch_pc,           \* process_batch: "loop", "running", "done"
    table,              \* the investigations table of the SQLite cache, in row order
    pc,                 \* run_dynamic_investigation: the phase or stage about to run
    investigation,      \* run_dynamic_investigation: the dict it builds and returns
    combined_data,      \* phase3_dynamic_query_execution: the bundle being filled
    connection,         \* evidence-store connections: opened and closed so far
    v2,                 \* engine.py: the frame of investigate_ticket and its caller
    calls,              \* history: the external services called, per request
    writes,             \* history: the rows written to the cache, in order
    workers,            \* engine.py: the frames of concurrent investigate_ticket calls
    db_lock,            \* the cache file's write lock: its holder, or 0
    db_call             \* core/database.py: the last operation called and its result

storeVars == <<workers, db_lock, db_call>>

postVars == <<phone, po_args, po_ret, storeVars>>

offVars == <<phone, po_args, po_ret, v2, storeVars>>

batchVars == <<ticket_ids, configuration, idx, tickets, investigations, batch_pc>>

runVars == <<pc, investigation, combined_data>>

vars == <<phone, po_args, po_ret, ticket_ids, configuration, idx, tickets, investigations,
          batch_pc, table,
          pc, investigation, combined_data, connection, v2, calls, writes,
          workers, db_lock, db_call>>

NotCalled == [raised |-> FALSE, pending |-> TRUE]

\* engine.py is not running
V2Off == [pc |-> "off", n |-> 0]

\* no concurrent callers of investigate_ticket
WorkersOff == <<>>

\* core/database.py has not been called
DbIdle == [n |-> 0, op |-> "none", ticket_id |-> NULL, ret |-> [found |-> FALSE]]

Tickets == { "t1", "t2" }

(***************************************************************************)
(* core/engine.py: run_dynamic_investigation                               *)
(***************************************************************************)
NoInvestigation == [ticket_id |-> NULL, success |-> FALSE, error |-> NULL,
                    phases |-> <<>>, timeline |-> <<>>]

NewInvestigation(ticket_id) ==
    [ticket_id |-> ticket_id, success |-> FALSE, error |-> NULL,
     phases |-> <<>>, timeline |-> <<>>]

NewExecutionLog == [stages_executed |-> <<>>, stages_skipped |-> <<>>]

\* combined_data as phase 3 creates it; the analytics-disabled literal of
\* run_dynamic_investigation is the same without the execution_log key.
EvidenceKeys ==
    { "account_profile", "dfrs_signals", "historical_tickets", "behavioral_analysis" }

\* a bundle created with the account profile only
NewCombinedDataPartial(with_log) ==
    [ keys |-> { "account_profile", "query_plan" }
                 \cup (IF with_log THEN { "execution_log" } ELSE {}),
      account_profile |-> EmptyProfile, dfrs_signals |-> EmptySignals,
      historical_tickets |-> 0, behavioral_analysis |-> EmptyBehavioral,
      has_execution_log |-> with_log, execution_log |-> NewExecutionLog ]

NewCombinedData(with_log) ==
    [ keys |-> EvidenceKeys \cup { "query_plan" }
                 \cup (IF with_log THEN { "execution_log" } ELSE {}),
      account_profile |-> EmptyProfile, dfrs_signals |-> EmptySignals,
      historical_tickets |-> 0, behavioral_analysis |-> EmptyBehavioral,
      has_execution_log |-> with_log, execution_log |-> NewExecutionLog ]

HasPhase(inv, name) == name \in DOMAIN inv.phases

PhaseData(inv, name) == inv.phases[name].data

\* a timeline that puts the newest phase first
RecordPhaseFirst(inv, name, label, data) ==
    [inv EXCEPT !.phases = @ @@ (name :> [status |-> "success", data |-> data]),
                !.timeline = <<label>> \o @]

RecordPhase(inv, name, label, data) ==
    [inv EXCEPT !.phases = @ @@ (name :> [status |-> "success", data |-> data]),
                !.timeline = Append(@, label)]

\* a log that puts the newest stage first
ExecutedFirst(log, stage, result) ==
    [log EXCEPT !.stages_executed = <<[stage |-> stage, result |-> result]>> \o @]

Executed(log, stage, result) ==
    [log EXCEPT !.stages_executed = Append(@, [stage |-> stage, result |-> result])]

\* a log that does not record the stages it skips
SkippedSilently(log, stage) == log

Skipped(log, stage) == [log EXCEPT !.stages_skipped = Append(@, stage)]

StagesExecuted(log) == { log.stages_executed[i].stage : i \in DOMAIN log.stages_executed }

Called(service) == calls' = calls \cup { [request |-> idx, service |-> service] }

\* except Exception as e: success False, error, return investigation
Fail(err) ==
    /\ investigation' = [investigation EXCEPT !.success = FALSE, !.error = err]
    /\ pc' = "returned"

\* PHASE 1: phase1_fetch_freshservice_data
Phase1(E) ==
    /\ pc = "phase1"
    /\ Called("case_source")
    /\ \E fetched \in E.fetches :
         IF fetched = "ok"
         THEN /\ investigation' = RecordPhase(investigation, "phase1", "Phase 1", "ticket")
              /\ pc' = "phase2"
         ELSE Fail(fetched)
    /\ UNCHANGED <<offVars, writes, batchVars, table, combined_data, connection>>

\* PHASE 2: phase2_query_planning; the plan is used as parsed
Phase2(E) ==
    /\ pc = "phase2"
    /\ Called("planner")
    /\ \E answer \in E.plans :
         IF answer.kind = "json"
         THEN /\ investigation' = RecordPhase(investigation, "phase2", "Phase 2", answer.body)
              /\ pc' = "phase3"
         ELSE Fail(ResponseError(answer))
    /\ UNCHANGED <<offVars, writes, batchVars, table, combined_data, connection>>

query_plan == PhaseData(investigation, "phase2")

\* a phase 3 that answers a failed connection like disabled analytics
Phase3ConnectLenient(E) ==
    /\ pc = "phase3"
    /\ Called("evidence_store")
    /\ \E connected \in E.connects :
         IF connected /\ configuration.use_analytics
         THEN /\ connection' = [connection EXCEPT !.opened = @ + 1]
              /\ combined_data' = NewCombinedData(TRUE)
              /\ pc' = "stage1"
              /\ UNCHANGED investigation
         ELSE /\ combined_data' = NewCombinedData(FALSE)
              /\ investigation' = [investigation EXCEPT !.error = "ConnectionError"]
              /\ pc' = "phase4"
              /\ UNCHANGED connection
    /\ UNCHANGED <<offVars, writes, batchVars, table>>

\* PHASE 3 entry: the use_analytics test, then get_synapse_connection()
Phase3Connect(E) ==
    /\ pc = "phase3"
    /\ IF configuration.use_analytics
       THEN /\ Called("evidence_store")
            /\ \E connected \in E.connects :
                 IF connected
                 THEN /\ connection' = [connection EXCEPT !.opened = @ + 1]
                      /\ combined_data' = NewCombinedData(TRUE)
                      /\ pc' = "stage1"
                      /\ UNCHANGED investigation
                 ELSE /\ Fail("ConnectionError")
                      /\ UNCHANGED <<connection, combined_data>>
       ELSE /\ combined_data' = NewCombinedData(FALSE)
            /\ investigation' =
                 [investigation EXCEPT !.phases =
                     @ @@ ("phase3" :> [status |-> "skipped", data |-> NULL])]
            /\ pc' = "phase4"
            /\ UNCHANGED <<connection, calls>>
    /\ UNCHANGED <<offVars, writes, batchVars, table>>

CloseConnection == connection' = [connection EXCEPT !.closed = @ + 1]

\* phase 3 returns combined_data: run_dynamic_investigation records the phase
Phase3Returns(data) ==
    /\ combined_data' = data
    /\ investigation' = RecordPhase(investigation, "phase3", "Phase 3", data)
    /\ pc' = "phase4"

\* a stage 1 that is skipped like an optional stage
Stage1Skipped(E) ==
    /\ pc = "stage1"
    /\ \E q \in E.accounts :
         combined_data' = [combined_data EXCEPT
             !.account_profile = IF q.kind = "rows" THEN q.rows ELSE EmptyProfile,
             !.execution_log = Skipped(@, STAGE_1_2)]
    /\ pc' = "stage3"
    /\ UNCHANGED <<offVars, writes, batchVars, table, calls, connection, investigation>>

\* STAGE 1-2: execute_stage_1_2_basic_account, its log entry, the no-account return
Stage1(E) ==
    /\ pc = "stage1"
    /\ \E q \in E.accounts :
         IF q.kind = "exception"
         THEN /\ CloseConnection
              /\ Fail("QueryError")
              /\ UNCHANGED combined_data
         ELSE LET account_data == q.rows
                  data == [combined_data EXCEPT
                             !.account_profile = account_data,
                             !.execution_log = Executed(@, STAGE_1_2,
                                 IF account_data.found THEN "success" ELSE "no_data")]
              IN  IF ~account_data.found
                  THEN /\ CloseConnection
                       /\ Phase3Returns(data)
                  ELSE /\ combined_data' = data
                       /\ pc' = "stage3"
                       /\ UNCHANGED <<connection, investigation>>
    /\ UNCHANGED <<offVars, writes, batchVars, table, calls>>

\* execute_stage_3_dfrs: no query for a device without DFRS; an exception is {}
execute_stage_3_dfrs(q, account_data) ==
    IF ~account_data.SupportsDFRS THEN EmptySignals
    ELSE IF q.kind = "exception" THEN EmptySignals
    ELSE q.rows

\* STAGE 3
Stage3(E) ==
    /\ pc = "stage3"
    /\ IF Truthy(query_plan.execute_stage_3_dfrs)
       THEN \E q \in E.signals :
              LET dfrs_data == execute_stage_3_dfrs(q, combined_data.account_profile)
              IN  combined_data' = [combined_data EXCEPT
                     !.dfrs_signals = dfrs_data,
                     !.execution_log = Executed(@, STAGE_3,
                         IF dfrs_data.found THEN "success" ELSE "no_data")]
       ELSE combined_data' = [combined_data EXCEPT !.execution_log = Skipped(@, STAGE_3)]
    /\ pc' = "stage4"
    /\ UNCHANGED <<offVars, writes, batchVars, table, calls, connection, investigation>>

\* execute_stage_4_historical_tickets: the rows, or [] on an exception
execute_stage_4_historical_tickets(q) ==
    IF q.kind = "exception" THEN 0 ELSE q.rows

\* STAGE 4
Stage4(E) ==
    /\ pc = "stage4"
    /\ IF Truthy(query_plan.execute_stage_4_history)
       THEN \E q \in E.histories :
              LET historical_data == execute_stage_4_historical_tickets(q)
              IN  combined_data' = [combined_data EXCEPT
                     !.historical_tickets = historical_data,
                     !.execution_log = Executed(@, STAGE_4, "n_tickets")]
       ELSE combined_data' = [combined_data EXCEPT !.execution_log = Skipped(@, STAGE_4)]
    /\ pc' = "stage5"
    /\ UNCHANGED <<offVars, writes, batchVars, table, calls, connection, investigation>>

\* execute_stage_5_behavioral_analysis: no query without an account number
execute_stage_5_behavioral_analysis(q, account_data) ==
    IF account_data.AccountNumber = NULL THEN EmptyBehavioral
    ELSE IF q.kind = "exception" THEN EmptyBehavioral
    ELSE q.rows

\* STAGE 5, then connection.close() and the return of phase 3
Stage5(E) ==
    /\ pc = "stage5"
    /\ IF Truthy(query_plan.execute_stage_5_behavioral)
       THEN \E q \in E.behaviors :
              LET behavioral_data ==
                      execute_stage_5_behavioral_analysis(q, combined_data.account_profile)
              IN  Phase3Returns([combined_data EXCEPT
                     !.behavioral_analysis = behavioral_data,
                     !.execution_log = Executed(@, STAGE_5,
                         IF behavioral_data.found THEN "success" ELSE "no_data")])
       ELSE Phase3Returns([combined_data EXCEPT !.execution_log = Skipped(@, STAGE_5)])
    /\ CloseConnection
    /\ UNCHANGED <<offVars, writes, batchVars, table, calls>>

\* a phase 4 that answers an exception with a default verdict
Phase4Lenient(E) ==
    /\ pc = "phase4"
    /\ Called("classifier")
    /\ \E response \in E.responses :
         LET ret == phase4_classify(response, combined_data.account_profile.AccountNumber,
                                    investigation.ticket_id, query_plan.fraud_type)
             verdict == [fraud_status |-> "Not fraud", confidence |-> 0,
                         custom_fields |-> [case_outcome |-> "No action required"]]
         IN  /\ investigation' =
                   IF ret.raised
                   THEN RecordPhase([investigation EXCEPT !.error = ret.error],
                                    "phase4", "Phase 4", verdict)
                   ELSE RecordPhase(investigation, "phase4", "Phase 4", ret.value)
             /\ pc' = "phase5"
    /\ UNCHANGED <<offVars, writes, batchVars, table, combined_data, connection>>

\* PHASE 4: phase4_fraud_investigation_enhanced
Phase4(E) ==
    /\ pc = "phase4"
    /\ Called("classifier")
    /\ \E response \in E.responses :
         LET ret == phase4_classify(response, combined_data.account_profile.AccountNumber,
                                    investigation.ticket_id, query_plan.fraud_type)
         IN  IF ret.raised
             THEN Fail(ret.error)
             ELSE /\ investigation' =
                        RecordPhase(investigation, "phase4", "Phase 4", ret.value)
                  /\ pc' = "phase5"
    /\ UNCHANGED <<offVars, writes, batchVars, table, combined_data, connection>>

\* PHASE 5: phase5_update_freshservice (dry run), then the final summary and
\* the dump of the result to its JSON file; an exception there is caught too
Phase5(E) ==
    /\ pc = "phase5"
    /\ \E saved \in E.saves :
         LET updated == RecordPhase(investigation, "phase5", "Phase 5", "dry_run")
         IN  investigation' =
                 IF saved = "ok" THEN [updated EXCEPT !.success = TRUE]
                 ELSE [updated EXCEPT !.success = FALSE, !.error = saved]
    /\ pc' = "returned"
    /\ UNCHANGED <<offVars, writes, batchVars, table, combined_data, connection, calls>>

(***************************************************************************)
(* tools/batch_investigation.py: the cache and process_batch               *)
(***************************************************************************)
PhaseDataOrEmpty(result, name) ==
    IF HasPhase(result, name) /\ result.phases[name].status = "success"
    THEN [present |-> TRUE, data |-> PhaseData(result, name)]
    ELSE [present |-> FALSE]

\* The columns save_to_cache extracts from the result
CacheRow(ticket_id, result) ==
    LET phase2 == PhaseDataOrEmpty(result, "phase2")
        phase4 == PhaseDataOrEmpty(result, "phase4")
    IN  [ ticket_id |-> ticket_id,
          fraud_status |-> IF phase4.present THEN phase4.data.fraud_status ELSE NULL,
          confidence |-> IF phase4.present THEN phase4.data.confidence ELSE 0,
          fraud_type |-> IF phase2.present THEN phase2.data.fraud_type ELSE NULL,
          case_outcome |->
              IF phase4.present THEN phase4.data.custom_fields.case_outcome ELSE NULL,
          primary_allegation |-> NULL,   \* phase4_data has no top-level 'primary_allegation'
          success |-> IF result.success THEN 1 ELSE 0,
          full_investigation_data |-> result ]

\* a plain INSERT into a table without the primary key
InsertAppend(rows, row) == Append(rows, row)

\* INSERT OR REPLACE on the ticket_id primary key
InsertOrReplace(rows, row) ==
    SelectSeq(rows, LAMBDA r : r.ticket_id # row.ticket_id) \o <<row>>

save_to_cache(rows, ticket_id, result) == InsertOrReplace(rows, CacheRow(ticket_id, result))

RowsOf(rows, ticket_id) == SelectSeq(rows, LAMBDA r : r.ticket_id = ticket_id)

\* SELECT ... WHERE ticket_id = ? ; fetchone()
check_if_investigated(rows, ticket_id) ==
    IF RowsOf(rows, ticket_id) = <<>> THEN [found |-> FALSE]
    ELSE LET row == Head(RowsOf(rows, ticket_id))
         IN  [found |-> TRUE,
              row |-> [ticket_id |-> row.ticket_id, fraud_status |-> row.fraud_status,
                       confidence |-> row.confidence, fraud_type |-> row.fraud_type,
                       case_outcome |-> row.case_outcome]]

\* the entry process_batch appends for a run that returned
SuccessEntry(ticket_id, investigation_result) ==
    LET phase2 == PhaseDataOrEmpty(investigation_result, "phase2")
        phase4 == PhaseDataOrEmpty(investigation_result, "phase4")
    IN  [ ticket_id |-> ticket_id, status |-> "success",
          fraud_status |-> IF phase4.present THEN phase4.data.fraud_status ELSE "Unknown",
          confidence |-> IF phase4.present THEN phase4.data.confidence ELSE 0,
          fraud_type |-> IF phase2.present THEN phase2.data.fraud_type ELSE "Unknown" ]

\* the loop moves on to the next ticket, or ends after the last
Continue ==
    /\ idx' = idx + 1
    /\ batch_pc' = IF idx + 1 > Len(ticket_ids) THEN "done" ELSE "loop"

\* except Exception in the loop body: count, then break or continue
BatchFailed ==
    /\ tickets' = [tickets EXCEPT !.failed = @ + 1]
    /\ IF configuration.stop_on_error
       THEN /\ batch_pc' = "done"
            /\ UNCHANGED idx
       ELSE Continue

\* top of the loop body: the cache check, then either the cached branch or
\* the call of run_dynamic_investigation
BatchCheck(E) ==
    /\ batch_pc = "loop"
    /\ idx <= Len(ticket_ids)
    /\ LET ticket_id == ticket_ids[idx]
           cached == check_if_investigated(table, ticket_id)
       IN  \E db \in E.reads :
             IF ~configuration.force_rerun /\ db = "error"
             THEN /\ BatchFailed
                  /\ UNCHANGED <<pc, investigation, combined_data, investigations>>
             ELSE IF ~configuration.force_rerun /\ cached.found
             THEN /\ tickets' = [tickets EXCEPT !.cached = @ + 1]
                  /\ investigations' = Append(investigations,
                         [ticket_id |-> ticket_id, status |-> "cached",
                          cached_data |-> cached.row])
                  /\ Continue
                  /\ UNCHANGED <<pc, investigation, combined_data>>
             ELSE /\ batch_pc' = "running"
                  /\ pc' = "phase1"
                  /\ investigation' = NewInvestigation(ticket_id)
                  /\ combined_data' = NewCombinedData(FALSE)
                  /\ UNCHANGED <<idx, tickets, investigations>>
    /\ UNCHANGED <<offVars, writes, ticket_ids, configuration, table, connection, calls>>

\* run_dynamic_investigation has returned: save_to_cache, then the counters
BatchSave(E) ==
    /\ batch_pc = "running"
    /\ pc = "returned"
    /\ \E db \in E.writes :
         IF db = "error"
         THEN /\ BatchFailed
              /\ UNCHANGED <<table, writes, investigations>>
         ELSE /\ table' = save_to_cache(table, ticket_ids[idx], investigation)
              /\ writes' = Append(writes, CacheRow(ticket_ids[idx], investigation))
              /\ tickets' = [tickets EXCEPT !.investigated = @ + 1]
              /\ investigations' = Append(investigations,
                     SuccessEntry(ticket_ids[idx], investigation))
              /\ Continue
    /\ pc' = "idle"
    /\ UNCHANGED <<offVars, ticket_ids, configuration, investigation, combined_data,
                   connection, calls>>

(***************************************************************************)
(* core/database.py: the cache operations, called in any order             *)
(***************************************************************************)
MaxCalls == 4

\* save_investigation: the same columns and the same INSERT OR REPLACE as
\* save_to_cache
database_save_investigation(rows, ticket_id, result) ==
    InsertOrReplace(rows, CacheRow(ticket_id, result))

\* SELECT full_investigation_data ... ; json.loads(row[0]) if row and row[0]
database_get_investigation(rows, ticket_id) ==
    IF RowsOf(rows, ticket_id) = <<>> THEN [found |-> FALSE]
    ELSE [found |-> TRUE, data |-> Head(RowsOf(rows, ticket_id)).full_investigation_data]

\* the COUNT(*) queries of get_cache_stats
get_cache_stats(rows) ==
    [ found |-> TRUE,
      total_investigations |-> Len(rows),
      fraud_detected |-> Len(SelectSeq(rows, LAMBDA r : r.fraud_status = "Likely fraud")),
      not_fraud |-> Len(SelectSeq(rows, LAMBDA r : r.fraud_status = "Not fraud")) ]

\* DELETE FROM investigations
clear_cache(rows) == <<>>

\* a DELETE without its WHERE clause
delete_investigation_all(rows, ticket_id) == <<>>

\* DELETE FROM investigations WHERE ticket_id = ?
delete_investigation(rows, ticket_id) == SelectSeq(rows, LAMBDA r : r.ticket_id # ticket_id)

\* results as run_dynamic_investigation returns them: a failure of phase 1,
\* and successes with either verdict
StoreResults(ticket_id) ==
    { [NewInvestigation(ticket_id) EXCEPT !.error = "NotFound"] } \cup
    { [ RecordPhase(
          RecordPhase(NewInvestigation(ticket_id), "phase2", "Phase 2", plan),
          "phase4", "Phase 4",
          process_investigation_output(answer, NULL, ticket_id, plan.fraud_type).value)
        EXCEPT !.success = TRUE ] :
        plan \in QueryPlans({"account_takeover"}, {"false"}, {"false"}, {"false"}),
        answer \in ClaudeResults({"Likely fraud", "Not fraud"}, {Num(60)},
                      {"Identity Theft"}, {NULL}, {"Re-investigate"}, {{}}, {FALSE},
                      {[dfrs_available |-> FALSE, dfrs_fraud_score |-> NULL]}) }

DbCalled(op, ticket_id, ret) ==
    db_call' = [n |-> db_call.n + 1, op |-> op, ticket_id |-> ticket_id, ret |-> ret]

DbSave ==
    /\ db_call.n < MaxCalls
    /\ \E ticket_id \in Tickets : \E result \in StoreResults(ticket_id) :
         /\ table' = database_save_investigation(table, ticket_id, result)
         /\ DbCalled("save_investigation", ticket_id, [found |-> FALSE])
    /\ UNCHANGED <<phone, po_args, po_ret, v2, batchVars, runVars, connection, calls,
                   writes, workers, db_lock>>

DbDelete ==
    /\ db_call.n < MaxCalls
    /\ \E ticket_id \in Tickets :
         /\ table' = delete_investigation(table, ticket_id)
         /\ DbCalled("delete_investigation", ticket_id, [found |-> FALSE])
    /\ UNCHANGED <<phone, po_args, po_ret, v2, batchVars, runVars, connection, calls,
                   writes, workers, db_lock>>

DbClear ==
    /\ db_call.n < MaxCalls
    /\ table' = clear_cache(table)
    /\ DbCalled("clear_cache", NULL, [found |-> FALSE])
    /\ UNCHANGED <<phone, po_args, po_ret, v2, batchVars, runVars, connection, calls,
                   writes, workers, db_lock>>

DbCheck ==
    /\ db_call.n < MaxCalls
    /\ \E ticket_id \in Tickets :
         DbCalled("check_if_investigated", ticket_id, check_if_investigated(table, ticket_id))
    /\ UNCHANGED <<phone, po_args, po_ret, v2, batchVars, runVars, connection, calls,
                   writes, workers, db_lock, table>>

DbGet ==
    /\ db_call.n < MaxCalls
    /\ \E ticket_id \in Tickets :
         DbCalled("get_investigation", ticket_id,
                  database_get_investigation(table, ticket_id))
    /\ UNCHANGED <<phone, po_args, po_ret, v2, batchVars, runVars, connection, calls,
                   writes, workers, db_lock, table>>

DbStats ==
    /\ db_call.n < MaxCalls
    /\ DbCalled("get_cache_stats", NULL, get_cache_stats(table))
    /\ UNCHANGED <<phone, po_args, po_ret, v2, batchVars, runVars, connection, calls,
                   writes, workers, db_lock, table>>

(***************************************************************************)
(* engine.py (v2.2): the cache helpers and investigate_ticket               *)
(***************************************************************************)
MaxRequests == 3

\* json.dumps(result, default=str): values of the account row that JSON cannot
\* encode (dates, decimals) are stored as their str()
json_dumps(result) == [json |-> [result EXCEPT !.account.values = "str"]]

json_loads(document) == document.json

\* INSERT OR REPLACE INTO investigations VALUES (?, ?, ?, ?, ?)
V2Row(ticket_id, result) ==
    [ ticket_id |-> ticket_id, fraud_status |-> result.fraud_status,
      confidence |-> result.confidence, data |-> json_dumps(result) ]

\* a save that rewrites the summary columns of an existing row and keeps its data
save_investigation_columns(rows, ticket_id, result) ==
    IF RowsOf(rows, ticket_id) = <<>> THEN InsertOrReplace(rows, V2Row(ticket_id, result))
    ELSE [ i \in DOMAIN rows |->
             IF rows[i].ticket_id = ticket_id
             THEN [rows[i] EXCEPT !.fraud_status = result.fraud_status,
                                  !.confidence = result.confidence]
             ELSE rows[i] ]

save_investigation(rows, ticket_id, result) == InsertOrReplace(rows, V2Row(ticket_id, result))

\* a lookup that never finds the row
get_investigation_none(rows, ticket_id) == [found |-> FALSE]

\* SELECT data ... WHERE ticket_id = ? ; json.loads(row[0]) if row else None
get_investigation(rows, ticket_id) ==
    IF RowsOf(rows, ticket_id) = <<>> THEN [found |-> FALSE]
    ELSE [found |-> TRUE, data |-> json_loads(Head(RowsOf(rows, ticket_id)).data)]

V2NoAccount == [found |-> FALSE, SupportsDFRS |-> FALSE, values |-> "native"]

V2AccountRow(dfrs) == [found |-> TRUE, SupportsDFRS |-> dfrs, values |-> "native"]

V2Plans(escalations, dfrs, history) ==
    { [ wrong_escalation |-> w, execute_dfrs |-> d, execute_history |-> h ] :
        w \in escalations, d \in dfrs, h \in history }

V2NoPlan == [wrong_escalation |-> "false", execute_dfrs |-> "false", execute_history |-> "false"]

V2Verdicts(statuses, confidences) ==
    { [ fraud_status |-> st, confidence |-> c ] : st \in statuses, c \in confidences }

\* result = {'ticket_id': ..., 'version': '2.2', 'timestamp': ..., 'phases': {}}
V2NewResult(ticket_id) ==
    [ ticket_id |-> ticket_id, success |-> FALSE, error |-> NULL, wrong_escalation |-> FALSE,
      account |-> V2NoAccount, fraud_status |-> NULL, confidence |-> 0 ]

V2Idle(n) ==
    [ pc |-> "idle", n |-> n, ticket_id |-> NULL, use_cache |-> FALSE, plan |-> V2NoPlan,
      result |-> V2NewResult(NULL), returned |-> V2NewResult(NULL), raised |-> NULL ]

V2Called(service) == calls' = calls \cup { [request |-> v2.n, service |-> service] }

\* return result
V2Return(result) == v2' = [v2 EXCEPT !.pc = "idle", !.result = result, !.returned = result]

\* an exception outside the try block leaves investigate_ticket
V2Raise(frame, err) == v2' = [frame EXCEPT !.pc = "idle", !.raised = err]

\* except Exception as e: success False, error, return result
V2Fail(err) == V2Return([v2.result EXCEPT !.success = FALSE, !.error = err])

\* run_sql_query: conn.close() is on the path that returns only; after an
\* exception the connection is left to the garbage collector, which may or may
\* not have finalized it
V2Query(q) ==
    IF q.kind = "exception"
    THEN \E finalized \in BOOLEAN :
           connection' = IF finalized
                         THEN [connection EXCEPT !.opened = @ + 1, !.closed = @ + 1]
                         ELSE [connection EXCEPT !.opened = @ + 1]
    ELSE connection' = [connection EXCEPT !.opened = @ + 1, !.closed = @ + 1]

\* the caller's request and the cache check at the top of investigate_ticket
V2Call(E) ==
    /\ v2.pc = "idle"
    /\ v2.n < MaxRequests
    /\ \E request \in E.requests, db \in E.v2reads :
         LET cached == get_investigation(table, request.ticket_id)
             frame == [v2 EXCEPT !.n = @ + 1, !.ticket_id = request.ticket_id,
                                 !.use_cache = request.use_cache, !.raised = NULL]
         IN  IF request.use_cache /\ db = "error"
             THEN V2Raise(frame, "OperationalError")
             ELSE IF request.use_cache /\ cached.found
             THEN v2' = [frame EXCEPT !.returned = cached.data]
             ELSE v2' = [frame EXCEPT !.pc = "fetch",
                                      !.result = V2NewResult(request.ticket_id)]
    /\ UNCHANGED <<postVars, batchVars, runVars, table, connection, calls, writes>>

\* PHASE 1: fetch_ticket
V2Fetch(E) ==
    /\ v2.pc = "fetch"
    /\ V2Called("case_source")
    /\ \E fetched \in E.fetches :
         IF fetched = "ok" THEN v2' = [v2 EXCEPT !.pc = "plan"] ELSE V2Fail(fetched)
    /\ UNCHANGED <<postVars, batchVars, runVars, table, connection, writes>>

\* PHASE 2: query_planning, and the wrong-escalation return
V2Plan(E) ==
    /\ v2.pc = "plan"
    /\ V2Called("planner")
    /\ \E answer \in E.v2plans :
         IF answer.kind # "json"
         THEN V2Fail(ResponseError(answer))
         ELSE IF Truthy(answer.body.wrong_escalation)
         THEN V2Return([v2.result EXCEPT !.wrong_escalation = TRUE, !.success = TRUE])
         ELSE v2' = [v2 EXCEPT !.pc = "account", !.plan = answer.body]
    /\ UNCHANGED <<postVars, batchVars, runVars, table, connection, writes>>

\* PHASE 3: account_lookup.sql
V2Account(E) ==
    /\ v2.pc = "account"
    /\ V2Called("evidence_store")
    /\ \E q \in E.v2accounts :
         /\ V2Query(q)
         /\ IF q.kind = "exception" THEN V2Fail("QueryError")
            ELSE v2' = [v2 EXCEPT !.pc = "dfrs", !.result.account = q.rows]
    /\ UNCHANGED <<postVars, batchVars, runVars, table, writes>>

\* PHASE 4: dfrs_signals.sql when planned and supported; the scores are printed
\* with a float format
V2Dfrs(E) ==
    /\ v2.pc = "dfrs"
    /\ IF /\ Truthy(v2.plan.execute_dfrs)
          /\ v2.result.account.found
          /\ v2.result.account.SupportsDFRS
       THEN \E q \in E.v2signals :
              /\ V2Query(q)
              /\ IF q.kind = "exception" THEN V2Fail("QueryError")
                 ELSE IF q.rows.found /\ q.rows.FraudScore = NULL THEN V2Fail("TypeError")
                 ELSE v2' = [v2 EXCEPT !.pc = "history"]
       ELSE /\ v2' = [v2 EXCEPT !.pc = "history"]
            /\ UNCHANGED connection
    /\ UNCHANGED <<postVars, batchVars, runVars, table, calls, writes>>

\* PHASE 5: historical_tickets.sql when planned and an account was found
V2History(E) ==
    /\ v2.pc = "history"
    /\ IF Truthy(v2.plan.execute_history) /\ v2.result.account.found
       THEN \E q \in E.v2histories :
              /\ V2Query(q)
              /\ IF q.kind = "exception" THEN V2Fail("QueryError")
                 ELSE v2' = [v2 EXCEPT !.pc = "investigate"]
       ELSE /\ v2' = [v2 EXCEPT !.pc = "investigate"]
            /\ UNCHANGED connection
    /\ UNCHANGED <<postVars, batchVars, runVars, table, calls, writes>>

\* PHASE 6: investigate, the headline prints, result.update, save_investigation
V2Investigate(E) ==
    /\ v2.pc = "investigate"
    /\ V2Called("classifier")
    /\ \E response \in E.v2responses, db \in E.writes :
         IF response.kind # "json"
         THEN /\ V2Fail(ResponseError(response))
              /\ UNCHANGED <<table, writes>>
         ELSE IF ~FormatsAsFloat(response.body.confidence)
         THEN /\ V2Fail(IF response.body.confidence.kind = "missing"
                        THEN "KeyError" ELSE "TypeError")
              /\ UNCHANGED <<table, writes>>
         ELSE LET result == [v2.result EXCEPT
                                !.fraud_status = response.body.fraud_status,
                                !.confidence = response.body.confidence.val,
                                !.success = TRUE]
              IN  IF db = "error"
                  THEN /\ V2Return([result EXCEPT !.success = FALSE,
                                                  !.error = "OperationalError"])
                       /\ UNCHANGED <<table, writes>>
                  ELSE /\ table' = save_investigation(table, v2.ticket_id, result)
                       /\ writes' = Append(writes, V2Row(v2.ticket_id, result))
                       /\ V2Return(result)
    /\ UNCHANGED <<postVars, batchVars, runVars, connection>>

(***************************************************************************)
(* engine.py (v2.2): investigate_ticket called by several processes at     *)
(* once (one Streamlit session each). The processes share the cache file   *)
(* only. SQLite gives each connection its own transaction: the INSERT OR   *)
(* REPLACE takes the file's write lock and the row becomes visible, whole,  *)
(* at commit; a second writer finds the database locked.                   *)
(***************************************************************************)
MaxWorkers == 2

Workers == 1..MaxWorkers

WorkerTicket == "t1"

WorkerCalled(use_cache) ==
    [ pc |-> "call", use_cache |-> use_cache, result |-> V2NewResult(WorkerTicket),
      returned |-> V2NewResult(NULL) ]

WorkerReturn(p, result) ==
    workers' = [workers EXCEPT ![p] = [@ EXCEPT !.pc = "done", !.result = result,
                                                !.returned = result]]

\* the cache check at the top of investigate_ticket
WorkerCheck(p) ==
    /\ workers # WorkersOff
    /\ workers[p].pc = "call"
    /\ LET cached == get_investigation(table, WorkerTicket)
       IN  IF workers[p].use_cache /\ cached.found
           THEN workers' = [workers EXCEPT ![p] = [@ EXCEPT !.pc = "done",
                                                            !.returned = cached.data]]
           ELSE workers' = [workers EXCEPT ![p] = [@ EXCEPT !.pc = "run"]]
    /\ UNCHANGED <<phone, po_args, po_ret, v2, batchVars, runVars, table, connection,
                   calls, writes, db_lock, db_call>>

\* PHASES 1-6 of investigate_ticket in a process of its own: they read and
\* write nothing the processes share, so they are one step that ends in the
\* except block, in the wrong-escalation return, or just before the save
WorkerPipeline(E, p) ==
    /\ workers # WorkersOff
    /\ workers[p].pc = "run"
    /\ \/ \E err \in { "APIError", "QueryError" } :
            WorkerReturn(p, [workers[p].result EXCEPT !.success = FALSE, !.error = err])
       \/ /\ \E answer \in E.v2plans : answer.kind = "json"
                                        /\ Truthy(answer.body.wrong_escalation)
          /\ WorkerReturn(p, [workers[p].result EXCEPT !.wrong_escalation = TRUE,
                                                       !.success = TRUE])
       \/ \E q \in E.v2accounts, response \in E.v2responses :
            /\ q.kind = "rows"
            /\ response.kind = "json"
            /\ FormatsAsFloat(response.body.confidence)
            /\ workers' = [workers EXCEPT ![p] = [@ EXCEPT
                   !.pc = "save",
                   !.result = [@ EXCEPT !.account = q.rows,
                                        !.fraud_status = response.body.fraud_status,
                                        !.confidence = response.body.confidence.val,
                                        !.success = TRUE]]]
    /\ UNCHANGED <<phone, po_args, po_ret, v2, batchVars, runVars, table, connection,
                   calls, writes, db_lock, db_call>>

\* save_investigation: sqlite3.connect and conn.execute(INSERT OR REPLACE ...),
\* which takes the write lock or, when another connection holds it, raises
\* 'database is locked' into the except block of investigate_ticket
WorkerExecute(p) ==
    /\ workers # WorkersOff
    /\ workers[p].pc = "save"
    /\ IF db_lock = 0
       THEN /\ db_lock' = p
            /\ workers' = [workers EXCEPT ![p] = [@ EXCEPT !.pc = "commit"]]
       ELSE /\ WorkerReturn(p, [workers[p].result EXCEPT !.success = FALSE,
                                                         !.error = "OperationalError"])
            /\ UNCHANGED db_lock
    /\ UNCHANGED <<phone, po_args, po_ret, v2, batchVars, runVars, table, connection,
                   calls, writes, db_call>>

\* save_investigation: conn.commit() and conn.close(), then return result
WorkerCommit(p) ==
    /\ workers # WorkersOff
    /\ workers[p].pc = "commit"
    /\ db_lock = p
    /\ table' = save_investigation(table, WorkerTicket, workers[p].result)
    /\ writes' = Append(writes, V2Row(WorkerTicket, workers[p].result))
    /\ db_lock' = 0
    /\ WorkerReturn(p, workers[p].result)
    /\ UNCHANGED <<phone, po_args, po_ret, v2, batchVars, runVars, connection, calls,
                   db_call>>

(***************************************************************************)
(* Environments                                                            *)
(***************************************************************************)
Flags == { "true", "false" }

\* plans with a flag that is a string, and with flags that are missing
\* (query_plan.get returns None for them)
MalformedQueryPlans == QueryPlans({"account_takeover"}, {"yes", "missing"}, {"missing"}, {"false"})

PipelineEnv ==
    [ fetches   |-> { "ok", "NotFound" },
      plans     |-> Responses(QueryPlans(FRAUD_TYPES, Flags, Flags, Flags)
                                  \cup MalformedQueryPlans),
      connects  |-> BOOLEAN,
      accounts  |-> { QueryRaises, QueryReturns(EmptyProfile),
                      QueryReturns(AccountRow(TRUE)), QueryReturns(AccountRow(FALSE)) },
      signals   |-> { QueryRaises, QueryReturns(EmptySignals), QueryReturns(SignalsRow) },
      histories |-> { QueryRaises, QueryReturns(0), QueryReturns(2) },
      behaviors |-> { QueryRaises, QueryReturns(EmptyBehavioral),
                      QueryReturns(BehavioralRow(0)), QueryReturns(BehavioralRow(1)) },
      responses |-> Responses(ClaudeResults(
                        {"Likely fraud", "Not fraud", "Confirmed fraud"},
                        {Num(60), Num(150), NoneConfidence},
                        {"Identity Theft"}, {NULL}, {"Re-investigate"}, {{}},
                        BOOLEAN, {[dfrs_available |-> FALSE, dfrs_fraud_score |-> NULL]})),
      saves     |-> { "ok", "OSError" },
      reads     |-> { "ok", "error" },
      writes    |-> { "ok", "error" } ]

InitPostIdle ==
    /\ po_args = [response |-> [kind |-> "api_error"], account_number |-> NULL,
                  ticket_id |-> NULL, fraud_type |-> NULL]
    /\ po_ret = Raised("APIError")

InitStoreIdle ==
    /\ workers = WorkersOff
    /\ db_lock = 0
    /\ db_call = DbIdle

InitBatch(lists, analytics, forces, stops, frames) ==
    /\ v2 \in frames
    /\ ticket_ids \in lists
    /\ configuration \in [use_analytics : analytics, force_rerun : forces,
                          stop_on_error : stops]
    /\ idx = 1
    /\ tickets = [investigated |-> 0, cached |-> 0, failed |-> 0]
    /\ investigations = <<>>
    /\ batch_pc = IF ticket_ids = <<>> THEN "done" ELSE "loop"
    /\ table = <<>>
    /\ pc = "idle"
    /\ investigation = NoInvestigation
    /\ combined_data = NewCombinedData(FALSE)
    /\ connection = [opened |-> 0, closed |-> 0]
    /\ calls = {}
    /\ writes = <<>>

NextRun(E) ==
    \/ BatchCheck(E)
    \/ Phase1(E)
    \/ Phase2(E)
    \/ Phase3Connect(E)
    \/ Stage1(E)
    \/ Stage3(E)
    \/ Stage4(E)
    \/ Stage5(E)
    \/ Phase4(E)
    \/ Phase5(E)
    \/ BatchSave(E)

(***************************************************************************)
(* Spec: one request through process_batch and the whole pipeline.         *)
(***************************************************************************)
Init ==
    /\ phone = PhoneOff
    /\ InitPostIdle
    /\ InitStoreIdle
    /\ InitBatch({ <<t>> : t \in {"t1"} }, BOOLEAN, {FALSE}, {TRUE}, {V2Off})

Next == NextRun(PipelineEnv)

Spec == Init /\ [][Next]_vars

(***************************************************************************)
(* SpecPost: the classification half of phase 4 as a function of the       *)
(* classifier's answer.                                                    *)
(***************************************************************************)
AllClaudeResults ==
    ClaudeResults(FraudStatuses, Confidences, Allegations, SuspectTypes, CaseOutcomes,
                  PublicNotes, BOOLEAN, DfrsReports)

InitPost ==
    /\ po_args \in [ response : Responses(AllClaudeResults),
                     account_number : {"ACC1"}, ticket_id : {"t1"},
                     fraud_type : {"account_takeover"} ]
    /\ po_ret = NotCalled
    /\ phone = PhoneOff
    /\ InitStoreIdle
    /\ InitBatch({<<>>}, {TRUE}, {FALSE}, {TRUE}, {V2Off})

PostProcess ==
    /\ po_ret = NotCalled
    /\ po_ret' = phase4_classify(po_args.response, po_args.account_number,
                                 po_args.ticket_id, po_args.fraud_type)
    /\ UNCHANGED <<phone, po_args, v2, batchVars, table, runVars, connection, calls,
                   writes, storeVars>>

NextPost == PostProcess

SpecPost == InitPost /\ [][NextPost]_vars

(***************************************************************************)
(* SpecCache: the cache under repeated requests, through process_batch     *)
(* (several tickets, repeats included) or through investigate_ticket.      *)
(***************************************************************************)
MaxBatch == 2

CacheEnv ==
    [ fetches     |-> { "ok" },
      plans       |-> Responses(QueryPlans({"account_takeover"}, {"false"}, {"false"},
                                           {"false"})),
      connects    |-> { TRUE },
      accounts    |-> { QueryReturns(AccountRow(FALSE)) },
      signals     |-> { QueryReturns(EmptySignals) },
      histories   |-> { QueryReturns(0) },
      behaviors   |-> { QueryReturns(EmptyBehavioral) },
      responses   |-> Responses(ClaudeResults(
                          {"Likely fraud", "Not fraud"}, {Num(60)},
                          {"Identity Theft"}, {NULL}, {"Re-investigate"}, {{}},
                          {FALSE}, {[dfrs_available |-> FALSE, dfrs_fraud_score |-> NULL]})),
      saves       |-> { "ok", "OSError" },
      reads       |-> { "ok" },
      writes      |-> { "ok", "error" },
      requests    |-> [ticket_id : Tickets, use_cache : BOOLEAN],
      v2reads     |-> { "ok" },
      v2plans     |-> Responses(V2Plans(Flags, {"true"}, {"true"})),
      v2accounts  |-> { QueryRaises, QueryReturns(V2NoAccount),
                        QueryReturns(V2AccountRow(TRUE)) },
      v2signals   |-> { QueryRaises, QueryReturns(SignalsRow),
                        QueryReturns([found |-> TRUE, FraudScore |-> NULL]) },
      v2histories |-> { QueryReturns(2) },
      v2responses |-> Responses(V2Verdicts({"Likely fraud", "Not fraud"},
                                           {Num(60), NoneConfidence})) ]

TicketLists ==
    UNION { [1..n -> Tickets] : n \in 1..MaxBatch }

InitCache ==
    /\ phone = PhoneOff
    /\ InitPostIdle
    /\ InitStoreIdle
    /\ \/ InitBatch(TicketLists, {TRUE}, BOOLEAN, BOOLEAN, {V2Off})
       \/ InitBatch({<<>>}, {TRUE}, {FALSE}, {TRUE}, {V2Idle(0)})

NextV2(E) ==
    \/ V2Call(E)
    \/ V2Fetch(E)
    \/ V2Plan(E)
    \/ V2Account(E)
    \/ V2Dfrs(E)
    \/ V2History(E)
    \/ V2Investigate(E)

NextCache ==
    \/ NextRun(CacheEnv)
    \/ NextV2(CacheEnv)

SpecCache == InitCache /\ [][NextCache]_vars

(***************************************************************************)
(* SpecFault: the same two programs with a cache whose reads can fail too. *)
(***************************************************************************)
FaultEnv == [CacheEnv EXCEPT !.reads = { "ok", "error" }, !.v2reads = { "ok", "error" }]

NextFault ==
    \/ NextRun(FaultEnv)
    \/ NextV2(FaultEnv)

SpecFault == InitCache /\ [][NextFault]_vars

(***************************************************************************)
(* SpecWorkers: investigate_ticket called for the same ticket by           *)
(* MaxWorkers processes at once, every interleaving of their cache steps.  *)
(***************************************************************************)
InitWorkers ==
    /\ phone = PhoneOff
    /\ InitPostIdle
    /\ InitBatch({<<>>}, {TRUE}, {FALSE}, {TRUE}, {V2Off})
    /\ workers \in [Workers -> { WorkerCalled(use_cache) : use_cache \in BOOLEAN }]
    /\ db_lock = 0
    /\ db_call = DbIdle

NextWorkers ==
    \E p \in Workers :
        \/ WorkerCheck(p)
        \/ WorkerPipeline(CacheEnv, p)
        \/ WorkerExecute(p)
        \/ WorkerCommit(p)

SpecWorkers == InitWorkers /\ [][NextWorkers]_vars

(***************************************************************************)
(* SpecReason: determine_reason_subreason over the allegations of the      *)
(* settings, null and unlisted ones, and over the suspect categories the   *)
(* function names, null and unlisted ones.                                 *)
(***************************************************************************)
ReasonAllegations ==
    FRAUD_ALLEGATION_OPTIONS \cup { NULL, "", "Pyramid scheme", "identity theft" }

ReasonSuspectTypes ==
    { NULL, "DSR", "External to M-kopa", "Customer", "Other Internal staff",
      "Internal Sales staff", "Unknown", "dsr" }

InitReason ==
    /\ phone = PhoneOff
    /\ InitStoreIdle
    /\ InitBatch({<<>>}, {TRUE}, {FALSE}, {TRUE}, {V2Off})
    /\ po_args \in [primary_allegation : ReasonAllegations, suspect_type : ReasonSuspectTypes]
    /\ po_ret = NotCalled

DeriveReason ==
    /\ po_ret = NotCalled
    /\ po_ret' = Returned(determine_reason_subreason(po_args.primary_allegation,
                                                     po_args.suspect_type))
    /\ UNCHANGED <<phone, po_args, v2, batchVars, table, runVars, connection, calls,
                   writes, storeVars>>

NextReason == DeriveReason

SpecReason == InitReason /\ [][NextReason]_vars

(***************************************************************************)
(* SpecStore: up to MaxCalls calls of the operations of core/database.py,  *)
(* in any order, on an empty cache.                                        *)
(***************************************************************************)
InitStore ==
    /\ phone = PhoneOff
    /\ InitPostIdle
    /\ InitStoreIdle
    /\ InitBatch({<<>>}, {TRUE}, {FALSE}, {TRUE}, {V2Off})

NextStore ==
    \/ DbSave
    \/ DbDelete
    \/ DbClear
    \/ DbCheck
    \/ DbGet
    \/ DbStats

SpecStore == InitStore /\ [][NextStore]_vars

(***************************************************************************)
(* SpecPhone: standardize_phone_number over phone numbers as they are      *)
(* written: digits only, with a leading "+", or with a "-" after the       *)
(* third digit.                                                            *)
(***************************************************************************)
MaxDigits == 11

DigitStrings == UNION { [1..n -> {"0", "7"}] : n \in 0..MaxDigits }

Written(digits, style) ==
    CASE style = "plus"   -> <<"+">> \o digits
      [] style = "dashed" -> IF Len(digits) > 3
                             THEN SubSeq(digits, 1, 3) \o <<"-">> \o SubSeq(digits, 4, Len(digits))
                             ELSE digits \o <<"-">>
      [] OTHER            -> digits

PhoneInputs ==
    { PhoneNone } \cup
    { Phone(Written(d, style)) : d \in DigitStrings, style \in {"plain", "plus", "dashed"} }

InitPhone ==
    /\ InitPostIdle
    /\ InitStoreIdle
    /\ InitBatch({<<>>}, {TRUE}, {FALSE}, {TRUE}, {V2Off})
    /\ \E input \in PhoneInputs : phone = [pc |-> "call", arg |-> input, ret |-> PhoneNone]

Standardize ==
    /\ phone.pc = "call"
    /\ phone' = [phone EXCEPT !.pc = "done", !.ret = standardize_phone_number(phone.arg)]
    /\ UNCHANGED <<po_args, po_ret, v2, batchVars, table, runVars, connection, calls, writes,
                   storeVars>>

NextPhone == Standardize

SpecPhone == InitPhone /\ [][NextPhone]_vars

(***************************************************************************)
(* Properties of the classification half of phase 4 (SpecPost)             *)
(***************************************************************************)
Produced == po_ret # NotCalled /\ ~po_ret.raised

\* C1: in every verdict produced by post-processing, a status of 'Not fraud'
\* comes with a null allegation, whatever allegation the classifier supplied.
C1_NotFraudHasNullAllegation ==
    (Produced /\ po_ret.value.fraud_status = "Not fraud")
        => po_ret.value.custom_fields.primary_allegation = NULL

\* C2: in every verdict produced by post-processing, a status of 'Likely fraud'
\* comes with an allegation of FRAUD_ALLEGATION_OPTIONS; a 'Likely fraud' answer
\* with a missing or unknown allegation ends in an error, not in a verdict.
C2_LikelyFraudHasListedAllegation ==
    (Produced /\ po_ret.value.fraud_status = "Likely fraud")
        => po_ret.value.custom_fields.primary_allegation \in FRAUD_ALLEGATION_OPTIONS

\* C3: the case outcome of every post-processed verdict is the tier of its
\* confidence (>= 0.70 field investigation, 0.55 to 0.70 re-investigate, below
\* 0.55 no action), whatever outcome the classifier suggested.
C3_OutcomeIsTierOfConfidence ==
    Produced =>
        LET confidence == po_ret.value.confidence
            tier == IF confidence >= confidence_high THEN "Awaiting field Investigation"
                    ELSE IF confidence >= confidence_medium THEN "Re-investigate"
                    ELSE "No action required"
        IN  po_ret.value.custom_fields.case_outcome = tier

\* C5: the public comment of every post-processed result holds none of the
\* blocklisted identifying fields (account number, name, phone, score).
C5_PublicCommentHasNoIdentifier ==
    Produced => po_ret.value.public_comment \cap Blocklist = {}

(***************************************************************************)
(* Properties of the pipeline (Spec)                                       *)
(***************************************************************************)
Classified == HasPhase(investigation, "phase4")

\* C4: every verdict the classification phase yields has a status of
\* 'Likely fraud' or 'Not fraud' and a confidence within [0, 1]; any other
\* parsed answer makes the phase fail.
C4_VerdictIsWellFormed ==
    Classified =>
        /\ PhaseData(investigation, "phase4").fraud_status \in ValidStatuses
        /\ PhaseData(investigation, "phase4").confidence >= 0
        /\ PhaseData(investigation, "phase4").confidence <= 100

ClassifierCalled == [request |-> idx, service |-> "classifier"] \in calls

BasicLookupExecuted == STAGE_1_2 \in StagesExecuted(combined_data.execution_log)

C10_ExternalScamSkipsBehavioral ==
    (HasPhase(investigation, "phase2") /\ query_plan.fraud_type = "external_scam")
        => STAGE_5 \notin StagesExecuted(combined_data.execution_log)

OptionalStages == { STAGE_3, STAGE_4, STAGE_5 }

StagesSkipped(log) == { log.stages_skipped[i] : i \in DOMAIN log.stages_skipped }

\* C11: a planner response that is structurally invalid (a stage flag missing
\* or not a boolean) makes the planning phase fail: phase 2 succeeds, and
\* evidence stages run, only under a plan whose stage flags are booleans.
C11_MalformedPlanFailsPlanning ==
    HasPhase(investigation, "phase2") =>
        /\ query_plan.execute_stage_3_dfrs \in Flags
        /\ query_plan.execute_stage_4_history \in Flags
        /\ query_plan.execute_stage_5_behavioral \in Flags

\* C12: when the mandatory lookup returns no row, no other stage is run, each
\* of them is in the execution log as skipped, and phase 3 returns its bundle.
C12_NoAccountSkipsEveryStage ==
    (BasicLookupExecuted /\ HasPhase(investigation, "phase3")
                         /\ ~combined_data.account_profile.found)
        => /\ StagesExecuted(combined_data.execution_log) = { STAGE_1_2 }
           /\ OptionalStages \subseteq StagesSkipped(combined_data.execution_log)

\* C14: a failure to connect to the evidence store, or an exception in the
\* mandatory first stage, ends the run: no optional stage is executed or
\* skipped, the classifier is not called, and the result is a failure that
\* carries the error.
C14_EvidenceStoreFailureIsFinal ==
    investigation.error \in { "ConnectionError", "QueryError" } =>
        /\ pc \in { "returned", "idle" }
        /\ ~investigation.success
        /\ ~HasPhase(investigation, "phase3")
        /\ ~HasPhase(investigation, "phase4")
        /\ StagesExecuted(combined_data.execution_log) \cap OptionalStages = {}
        /\ StagesSkipped(combined_data.execution_log) = {}
        /\ \A c \in calls : c.service # "classifier"

\* the first stage's query has raised on an open connection and the run has
\* returned
C14_Witness ==
    /\ investigation.error = "QueryError"
    /\ connection.opened = 1
    /\ pc = "returned"
    /\ HasPhase(investigation, "phase2")

\* C15: when the classifier's response cannot be parsed, phase 4 fails: the
\* run ends in a failure result with no phase 4 verdict (no fraud status, no
\* confidence), and neither post-processing nor phase 5 has run.
C15_UnparsableVerdictFailsRun ==
    (HasPhase(investigation, "phase2") /\ investigation.error = "ValueError") =>
        /\ pc \in { "returned", "idle" }
        /\ ~investigation.success
        /\ ~HasPhase(investigation, "phase4")
        /\ ~HasPhase(investigation, "phase5")
        /\ CacheRow(investigation.ticket_id, investigation).fraud_status = NULL

\* all of the evidence was gathered, the classifier answered with text that is
\* not JSON, and the run has returned
C15_Witness ==
    /\ HasPhase(investigation, "phase3")
    /\ BasicLookupExecuted
    /\ ClassifierCalled
    /\ investigation.error = "ValueError"
    /\ pc = "returned"

(***************************************************************************)
(* Properties of the cache (SpecCache)                                     *)
(***************************************************************************)
WritesOf(ticket_id) == SelectSeq(writes, LAMBDA r : r.ticket_id = ticket_id)

\* C7: after any sequence of cache writes the table holds at most one row per
\* ticket id, and that row is the most recent write for the id.
C7_UpsertKeepsLatestWrite ==
    \A t \in Tickets :
        /\ Len(RowsOf(table, t)) <= 1
        /\ WritesOf(t) # <<>> => RowsOf(table, t) = << WritesOf(t)[Len(WritesOf(t))] >>

\* one ticket id has been written twice with different rows, another id is
\* in the table as well
C7_Witness ==
    \E t \in Tickets :
        /\ Len(WritesOf(t)) >= 2
        /\ WritesOf(t)[1] # WritesOf(t)[Len(WritesOf(t))]
        /\ Len(table) = 2

BatchRequest == batch_pc = "loop" /\ idx <= Len(ticket_ids)

BatchCached == RowsOf(table, ticket_ids[idx]) # <<>>

V2Request == v2.pc = "idle" /\ v2'.n = v2.n + 1

V2Cached == RowsOf(table, v2'.ticket_id) # <<>>

\* C8: a request made with caching enabled for a ticket that has a row in the
\* cache is answered with the stored verdict and calls neither the case source,
\* the evidence store nor the classifier; the pipeline runs for a cached ticket
\* only when the request forces it (force_rerun / use_cache=False).
C8_CacheHitSkipsPipeline ==
    [][ /\ (BatchRequest /\ BatchCached /\ ~configuration.force_rerun)
            => /\ calls' = calls
               /\ pc' = pc
               /\ table' = table
               /\ Len(investigations') = Len(investigations) + 1
               /\ investigations'[Len(investigations')].status = "cached"
               /\ investigations'[Len(investigations')].cached_data.fraud_status
                      = Head(RowsOf(table, ticket_ids[idx])).fraud_status
               /\ investigations'[Len(investigations')].cached_data.confidence
                      = Head(RowsOf(table, ticket_ids[idx])).confidence
        /\ (BatchRequest /\ BatchCached /\ pc' = "phase1") => configuration.force_rerun
        /\ (V2Request /\ V2Cached /\ v2'.use_cache)
            => /\ calls' = calls
               /\ table' = table
               /\ v2'.pc = "idle"
               /\ v2'.returned = json_loads(Head(RowsOf(table, v2'.ticket_id)).data)
        /\ (V2Request /\ V2Cached /\ v2'.pc = "fetch") => ~v2'.use_cache
      ]_vars

\* investigate_ticket has answered a later request from the cache: the stored
\* verdict is returned and no service was called for that request
C8_Witness ==
    /\ v2.pc = "idle"
    /\ v2.n >= 2
    /\ v2.use_cache
    /\ RowsOf(table, v2.ticket_id) # <<>>
    /\ v2.returned.fraud_status \in ValidStatuses
    /\ v2.returned = json_loads(Head(RowsOf(table, v2.ticket_id)).data)
    /\ \A c \in calls : c.request # v2.n

(***************************************************************************)
(* Properties of phone normalization (SpecPhone)                           *)
(***************************************************************************)
Standardized == phone.pc = "done"

DigitsOf(phone_number) == IF phone_number.none THEN <<>> ELSE StripNonDigits(phone_number.text)

\* C18: for every input whose digits number exactly 9 and do not begin with 0,
\* the result is those 9 digits with exactly one "0" in front (10 digits).
C18_NineDigitsGetOneLeadingZero ==
    (Standardized /\ Len(DigitsOf(phone.arg)) = 9 /\ DigitsOf(phone.arg)[1] # "0")
        => /\ phone.ret = Phone(<<"0">> \o DigitsOf(phone.arg))
           /\ Len(phone.ret.text) = 10

\* a 9-digit number written with a dash has been given its leading zero
C18_Witness ==
    /\ Standardized
    /\ phone.arg.text = <<"7", "0", "7", "-", "0", "0", "7", "7", "0", "7">>
    /\ phone.ret.text = <<"0", "7", "0", "7", "0", "0", "7", "7", "0", "7">>

\* C19 as stated: the result is null for every input whose digit count is
\* anything other than 9.
C19_OnlyNineDigitsAccepted ==
    (Standardized /\ Len(DigitsOf(phone.arg)) # 9) => phone.ret = PhoneNone

\* C19 amended: the result is null for every input whose digit count is neither
\* 9 nor 10; an input of 10 digits is returned as its digits, unchanged.
C19_OnlyNineOrTenDigitsAccepted ==
    /\ (Standardized /\ Len(DigitsOf(phone.arg)) \notin {9, 10}) => phone.ret = PhoneNone
    /\ (Standardized /\ Len(DigitsOf(phone.arg)) = 10) => phone.ret = Phone(DigitsOf(phone.arg))

\* an input of 11 digits, written with a leading "+", has been given null
C19_Witness ==
    /\ Standardized
    /\ Len(DigitsOf(phone.arg)) = 11
    /\ phone.arg.text[1] = "+"
    /\ phone.ret = PhoneNone

(***************************************************************************)
(* Properties of failures (SpecCache, SpecFault)                           *)
(***************************************************************************)
\* C13: an exception or an empty result in an optional stage never aborts the
\* pipeline: from an optional stage the run always goes on to the next stage
\* or to classification.
C13_OptionalStageNeverAborts ==
    [][ /\ pc \in { "stage3", "stage4", "stage5" }
            => pc' \in { "stage3", "stage4", "stage5", "phase4" }
        /\ v2.pc \in { "dfrs", "history" }
            => v2'.pc \in { "dfrs", "history", "investigate" }
      ]_vars

\* C16: the top-level investigation function never raises, whatever step of a
\* request fails (the cache read included).
C16_InvestigateNeverRaises == v2.pc # "off" => v2.raised = NULL

\* C17: when the pipeline has returned, no evidence-store connection opened
\* for the case remains open.
C17_ConnectionsReleasedOnReturn ==
    (pc \in { "idle", "returned" } /\ v2.pc \in { "off", "idle" })
        => connection.opened = connection.closed

\* C20: in a batch run configured stop-on-error, processing stops at the first
\* ticket whose investigation fails.
C20_StopOnErrorStopsAtFailedInvestigation ==
    (v2.pc = "off" /\ configuration.stop_on_error
                   /\ \E i \in DOMAIN writes : writes[i].success = 0)
        => batch_pc = "done"

(***************************************************************************)
(* Properties of concurrent investigations of one ticket (SpecWorkers)     *)
(***************************************************************************)
\* C21: when several investigations of the same case id run concurrently, in
\* every interleaving and after every save the cache holds exactly one record
\* for that id, and that record is wholly the one written last: its summary
\* columns and its payload come from the same write.
C21_ConcurrentSavesLeaveOneWholeRow ==
    (workers # WorkersOff /\ writes # <<>>) =>
        LET rows == RowsOf(table, WorkerTicket)
        IN  /\ Len(rows) = 1
            /\ rows[1] = writes[Len(writes)]
            /\ rows[1].fraud_status = json_loads(rows[1].data).fraud_status
            /\ rows[1].confidence = json_loads(rows[1].data).confidence

\* two concurrent investigations have both saved, with different verdicts, and
\* both have returned
C21_Witness ==
    /\ workers # WorkersOff
    /\ \A p \in Workers : workers[p].pc = "done"
    /\ Len(writes) = 2
    /\ writes[1].fraud_status # writes[2].fraud_status
    /\ table = <<writes[2]>>

(***************************************************************************)
(* Properties of the order of stages and phases (Spec)                     *)
(***************************************************************************)
StageOrder == <<STAGE_1_2, STAGE_3, STAGE_4, STAGE_5>>

StageRank(stage) == CHOOSE i \in DOMAIN StageOrder : StageOrder[i] = stage

\* C22: the stages a run executes are executed in the fixed order basic
\* account, risk signals, history, behavioral: the executed list is a
\* subsequence of that order that starts with the basic stage, and no optional
\* stage starts, or is executed, before the basic stage has returned a row.
C22_StagesRunInFixedOrder ==
    LET executed == combined_data.execution_log.stages_executed
    IN  /\ \A i \in DOMAIN executed : executed[i].stage \in { StageOrder[k] : k \in DOMAIN StageOrder }
        /\ \A i, j \in DOMAIN executed :
              i < j => StageRank(executed[i].stage) < StageRank(executed[j].stage)
        /\ executed # <<>> => executed[1].stage = STAGE_1_2
        /\ (pc \in { "stage3", "stage4", "stage5" }
              \/ StagesExecuted(combined_data.execution_log) \cap OptionalStages # {})
             => /\ combined_data.account_profile.found
                /\ executed # <<>>
                /\ executed[1] = [stage |-> STAGE_1_2, result |-> "success"]

\* a run has executed all four stages
C22_Witness ==
    /\ HasPhase(investigation, "phase3")
    /\ Len(combined_data.execution_log.stages_executed) = 4
    /\ combined_data.execution_log.stages_executed[4].stage = STAGE_5

IsPrefix(s, t) == Len(s) <= Len(t) /\ s = SubSeq(t, 1, Len(s))

\* the run of the request's one ticket has called the service
ServiceCalled(service) == [request |-> 1, service |-> service] \in calls

C24_BundleHasAllFourEntries ==
    (pc = "phase4" \/ ServiceCalled("classifier")) =>
        LET executed == StagesExecuted(combined_data.execution_log)
        IN  /\ EvidenceKeys \subseteq combined_data.keys
            /\ STAGE_1_2 \notin executed => combined_data.account_profile = EmptyProfile
            /\ STAGE_3 \notin executed => combined_data.dfrs_signals = EmptySignals
            /\ STAGE_4 \notin executed => combined_data.historical_tickets = 0
            /\ STAGE_5 \notin executed => combined_data.behavioral_analysis = EmptyBehavioral

\* the classifier has been called in a run with analytics disabled
C24_Witness ==
    /\ ~configuration.use_analytics
    /\ ServiceCalled("classifier")
    /\ combined_data.keys = EvidenceKeys \cup { "query_plan" }
    /\ StagesExecuted(combined_data.execution_log) = {}

(***************************************************************************)
(* Properties of the rows process_batch writes (Spec, SpecCache)           *)
(***************************************************************************)
\* C25: after every cache write the summary columns of the row (status,
\* confidence, allegation, outcome tier, fraud type) equal the values of the
\* verdict in the payload of the same row; in particular the allegation column
\* is not null when the stored verdict has an allegation.
C25_SummaryColumnsMatchPayload ==
    \A i \in DOMAIN table :
        LET row == table[i]
            result == row.full_investigation_data
        IN  HasPhase(result, "phase4") =>
              LET verdict == PhaseData(result, "phase4")
              IN  /\ row.fraud_status = verdict.fraud_status
                  /\ row.confidence = verdict.confidence
                  /\ row.case_outcome = verdict.custom_fields.case_outcome
                  /\ row.fraud_type = verdict.metadata.fraud_type_detected
                  /\ row.primary_allegation = verdict.custom_fields.primary_allegation

(***************************************************************************)
(* Properties of determine_reason_subreason (SpecReason)                   *)
(***************************************************************************)
ReasonOfSuspect(suspect_type) ==
    CASE suspect_type \in { "DSR", "Other Internal staff", "Internal Sales staff" }
                                            -> "DSR fraud"
      [] suspect_type = "External to M-kopa" -> "External/Noncustomer fraud"
      [] suspect_type = "Customer"           -> "Customer Fraud"
      [] OTHER                               -> "Suspected Fraud"

\* C26: the derivation is total: the reason depends on the suspect category
\* only (DSR and internal staff, external party, customer, and 'Suspected
\* Fraud' for any other category, null included) and the sub-reason on the
\* allegation only, through the table of the settings, with 'Cash Payments'
\* for every allegation the table does not list, null included.
C26_ReasonAndSubreasonAreTotal ==
    po_ret # NotCalled =>
        /\ ~po_ret.raised
        /\ po_ret.value[1] = ReasonOfSuspect(po_args.suspect_type)
        /\ po_ret.value[2] =
              IF po_args.primary_allegation \in DOMAIN ALLEGATION_TO_SUBREASON
              THEN ALLEGATION_TO_SUBREASON[po_args.primary_allegation]
              ELSE "Cash Payments"
        /\ po_ret.value[1] # NULL
        /\ po_ret.value[2] # NULL

\* the derivation has answered a null allegation and a null suspect category
C26_Witness ==
    /\ po_ret # NotCalled
    /\ po_args = [primary_allegation |-> NULL, suspect_type |-> NULL]
    /\ po_ret.value = <<"Suspected Fraud", "Cash Payments">>

\* C27: a failed investigation is never recorded in the cache, so that a later
\* request for the same case that does not force a rerun runs the pipeline
\* again instead of being answered from the cache.
C27_FailedRunIsNotCached ==
    /\ \A i \in DOMAIN table :
          v2.pc = "off" => table[i].full_investigation_data.success
    /\ \A i \in DOMAIN investigations :
          investigations[i].status = "cached" =>
              \E j \in DOMAIN writes :
                  /\ writes[j].ticket_id = investigations[i].ticket_id
                  /\ writes[j].success = 1

BatchCountsAddUp ==
    LET counted == tickets.investigated + tickets.cached + tickets.failed
    IN  /\ batch_pc \in { "loop", "running" } => counted = idx - 1
        /\ (batch_pc = "done" /\ ~configuration.stop_on_error) => counted = Len(ticket_ids)
        /\ counted <= Len(ticket_ids)

FailedRuns == { i \in DOMAIN writes : writes[i].success = 0 }

\* C28: a batch run processes the ids in list order, each position once: at
\* every point investigated + cached + failed is the number of ids processed so
\* far, with continue-on-error the final counts sum to the length of the list,
\* and every case whose pipeline ended in failure is counted as failed, not as
\* investigated.
C28_BatchCountsPartitionTheList ==
    v2.pc = "off" =>
        /\ BatchCountsAddUp
        /\ tickets.investigated = Len(writes) - Cardinality(FailedRuns)
        /\ tickets.failed >= Cardinality(FailedRuns)

(***************************************************************************)
(* Properties of the cache operations of core/database.py (SpecStore)      *)
(***************************************************************************)
\* C29: a save or a delete for one case id leaves the records of every other
\* case id unchanged, and the reading operations (summary lookup, full
\* retrieval, statistics) change no record.
C29_CacheOperationsTouchOneRow ==
    [][ db_call' # db_call =>
          /\ db_call'.op \in { "save_investigation", "delete_investigation" } =>
                \A t \in Tickets \ { db_call'.ticket_id } :
                    RowsOf(table', t) = RowsOf(table, t)
          /\ db_call'.op \in { "check_if_investigated", "get_investigation",
                                "get_cache_stats" } => table' = table ]_vars

\* the record of t1 has been deleted from a cache that holds a record of t2
C29_Witness ==
    /\ db_call.op = "delete_investigation"
    /\ db_call.ticket_id = "t1"
    /\ db_call.n >= 3
    /\ RowsOf(table, "t1") = <<>>
    /\ RowsOf(table, "t2") # <<>>

(***************************************************************************)
(* Properties of the execution log (Spec)                                  *)
(***************************************************************************)
PlanFlag(stage) ==
    CASE stage = STAGE_3 -> query_plan.execute_stage_3_dfrs
      [] stage = STAGE_4 -> query_plan.execute_stage_4_history
      [] stage = STAGE_5 -> query_plan.execute_stage_5_behavioral

TimesExecuted(log, stage) ==
    Cardinality({ i \in DOMAIN log.stages_executed : log.stages_executed[i].stage = stage })

TimesSkipped(log, stage) ==
    Cardinality({ i \in DOMAIN log.stages_skipped : log.stages_skipped[i] = stage })

\* C30: when the basic lookup has found an account and stage execution has
\* completed, each of the three optional stages is exactly once in exactly one
\* of the executed and skipped lists: in the executed list if and only if its
\* flag in the plan is true.
C30_OptionalStageExecutedOrSkipped ==
    (/\ HasPhase(investigation, "phase3")
     /\ investigation.phases["phase3"].status = "success"
     /\ combined_data.account_profile.found) =>
        \A stage \in OptionalStages :
            LET log == combined_data.execution_log
            IN  /\ TimesExecuted(log, stage) + TimesSkipped(log, stage) = 1
                /\ TimesExecuted(log, stage) = 1 <=> Truthy(PlanFlag(stage))

\* stage execution has completed for an account that was found, under a plan
\* that asks for the risk signals and not for the history
C30_Witness ==
    /\ HasPhase(investigation, "phase3")
    /\ combined_data.account_profile.found
    /\ query_plan.execute_stage_3_dfrs = "true"
    /\ query_plan.execute_stage_4_history = "false"
    /\ STAGE_3 \in StagesExecuted(combined_data.execution_log)
    /\ STAGE_4 \in StagesSkipped(combined_data.execution_log)

====
